---- MODULE Spec2Model ----
(***************************************************************************)
(* Task management application: the Task entity and its persistence       *)
(* operations (models/task.py), the shared connection (db.py) and the     *)
(* TaskManager handlers that drive them (utils.py).                       *)
(*                                                                         *)
(* The connection is modelled by two tables: `table' is what statements   *)
(* on the connection read and write (the open transaction's view), and    *)
(* `committed' is what db.commit() has made durable.  Strings that the    *)
(* code inspects character by character (ids, LIKE patterns, dates) are   *)
(* sequences of one-character strings.                                    *)
(***************************************************************************)
EXTENDS Integers, Sequences, FiniteSets, TLC

VARIABLES
    table,      \* rows of `tasks' as seen through the connection (db.py:11-19)
    committed,  \* rows of `tasks' made durable by db.commit()
    cur,        \* the Task object the caller holds, or None
    ret,        \* the last call: its name, argument, return value, failure point
    alive,      \* FALSE once an exception has escaped to main()'s loop
    failures,   \* the number of calls in which the store has failed so far
    clock       \* time.time(), in seconds since utils was loaded

vars == <<table, committed, cur, ret, alive, failures, clock>>

----------------------------------------------------------------------------
(* Bounds of the model *)

\* The number of calls of one run in which the store fails (in execute, fetch
\* or commit).
MaxFailures == 1

\* The seconds that pass during one run.
MaxClock == 1

----------------------------------------------------------------------------
(* Values *)

\* Python's None (no Task, no argument).
None == [none |-> TRUE]

\* Task.__init__ (task.py:24-42): the seven private fields, assigned as given.
Task(id, title, description, due_date, priority, status, created_at) ==
    [id |-> id, title |-> title, description |-> description,
     due_date |-> due_date, priority |-> priority, status |-> status,
     created_at |-> created_at]

\* The setters' accepted values (task.py:83-118).
valid_priorities == {"Low", "Medium", "High"}

valid_statuses == {"Pending", "In Progress", "Completed"}

\* Mutant: the setters assign without checking.
SetterUnchecked(field, value) == TRUE

\* Whether the property setter of `field' accepts `value' (task.py:83-118):
\* the enumerations for priority and status, and "not value.strip()" for the
\* others (a due date is a sequence of characters, the others plain strings).
SetterAccepts(field, value) ==
    CASE field = "priority" -> value \in valid_priorities
      [] field = "status"   -> value \in valid_statuses
      [] field = "due_date" -> value \notin {<<>>, <<" ">>}
      [] OTHER              -> value \notin {"", " "}

----------------------------------------------------------------------------
(* The tasks table: rows are 7-tuples in the column order of the INSERT   *)
(* of Task.save and of result[0..6] in Task.get.                          *)

\* Mutant: the priority_level column is taken for the status column.
ColumnMisnamed(name) ==
    CASE name = "id"             -> 1
      [] name = "title"          -> 2
      [] name = "description"    -> 3
      [] name = "due_date"       -> 4
      [] name = "priority_level" -> 6
      [] name = "status"         -> 6
      [] name = "created_at"     -> 7

\* Position of a column in a row (task.py:140-146, 231-233, 260-275).
Column(name) ==
    CASE name = "id"             -> 1
      [] name = "title"          -> 2
      [] name = "description"    -> 3
      [] name = "due_date"       -> 4
      [] name = "priority_level" -> 5
      [] name = "status"         -> 6
      [] name = "created_at"     -> 7

\* Mutant: the INSERT binds status and priority in each other's place.
InsertValuesSwapped(t) ==
    <<t.id, t.title, t.description, t.due_date, t.status, t.priority,
      t.created_at>>

\* The tuple bound to INSERT INTO tasks VALUES(...) (task.py:230-234).
InsertValues(t) ==
    <<t.id, t.title, t.description, t.due_date, t.priority, t.status,
      t.created_at>>

\* Task(id=result[0], ..., created_at=result[6]) (task.py:139-147, 204-212).
TaskOfRow(result) ==
    Task(result[1], result[2], result[3], result[4], result[5], result[6],
         result[7])

HasId(tbl, id) == \E r \in tbl : r[Column("id")] = id

\* INSERT INTO tasks VALUES(...): the new table.
SqlInsert(tbl, row) == tbl \cup {row}

\* Mutant: the UPDATE has lost its WHERE clause.
SqlUpdateAll(tbl, column, value, id) ==
    {[r EXCEPT ![Column(column)] = value] : r \in tbl}

\* Mutant: the UPDATE also stamps created_at with the value.
SqlUpdateStamped(tbl, column, value, id) ==
    {IF r[Column("id")] = id
     THEN [r EXCEPT ![Column(column)] = value, ![Column("created_at")] = value]
     ELSE r : r \in tbl}

\* Mutant: the WHERE clause of the UPDATE is inverted.
SqlUpdateOthers(tbl, column, value, id) ==
    {IF r[Column("id")] # id THEN [r EXCEPT ![Column(column)] = value] ELSE r :
        r \in tbl}

\* UPDATE tasks SET <column> = value WHERE id = id (task.py:260-275, 298).
SqlUpdate(tbl, column, value, id) ==
    {IF r[Column("id")] = id THEN [r EXCEPT ![Column(column)] = value] ELSE r :
        r \in tbl}

\* Mutant: the WHERE clause of the DELETE is inverted.
SqlDeleteOthers(tbl, id) == {r \in tbl : r[Column("id")] = id}

\* DELETE FROM tasks WHERE id = id (task.py:317).
SqlDelete(tbl, id) == {r \in tbl : r[Column("id")] # id}

\* SQL LIKE: % matches any run of characters, _ any one character.
RECURSIVE Like(_, _)
Like(s, pattern) ==
    IF pattern = <<>> THEN s = <<>>
    ELSE IF Head(pattern) = "%"
         THEN \E k \in 0..Len(s) : Like(SubSeq(s, k + 1, Len(s)), Tail(pattern))
         ELSE /\ s # <<>>
              /\ Head(pattern) = "_" \/ Head(pattern) = Head(s)
              /\ Like(Tail(s), Tail(pattern))

\* SELECT * FROM tasks WHERE id LIKE task_id + '%' (task.py:134).
SelectLike(tbl, task_id) ==
    {r \in tbl : Like(r[Column("id")], task_id \o <<"%">>)}

----------------------------------------------------------------------------
(* ORDER BY of Task.get_all (task.py:168-197) *)

\* Mutant: the CASE ranks Low before Medium.
PriorityRankLowFirst(p) ==
    CASE p = "High"   -> 1
      [] p = "Low"    -> 2
      [] p = "Medium" -> 3
      [] OTHER        -> 4

\* ORDER BY CASE priority_level WHEN 'High' THEN 1 ... ELSE 4 END.
PriorityRank(p) ==
    CASE p = "High"   -> 1
      [] p = "Medium" -> 2
      [] p = "Low"    -> 3
      [] OTHER        -> 4

\* ORDER BY CASE status WHEN 'Pending' THEN 1 ... ELSE 4 END.
StatusRank(s) ==
    CASE s = "Pending"     -> 1
      [] s = "In Progress" -> 2
      [] s = "Completed"   -> 3
      [] OTHER             -> 4

\* Character codes of the characters a due date is made of.
CharCode(c) ==
    CASE c = " " -> 32 [] c = "-" -> 45 [] c = "0" -> 48 [] c = "1" -> 49
      [] c = "2" -> 50 [] c = "3" -> 51 [] c = "4" -> 52 [] c = "5" -> 53
      [] c = "6" -> 54 [] c = "7" -> 55 [] c = "8" -> 56 [] c = "9" -> 57

\* a <= b in the lexical order of strings (ORDER BY due_date ASC).
RECURSIVE LexLE(_, _)
LexLE(a, b) ==
    IF a = <<>> THEN TRUE
    ELSE IF b = <<>> THEN FALSE
    ELSE IF Head(a) = Head(b) THEN LexLE(Tail(a), Tail(b))
    ELSE CharCode(Head(a)) < CharCode(Head(b))

\* r1 may precede r2 under the ORDER BY clause chosen by sort_by.
OrderLE(sort_by, r1, r2) ==
    CASE sort_by = "due_date" ->
            LexLE(r1[Column("due_date")], r2[Column("due_date")])
      [] sort_by = "priority" ->
            PriorityRank(r1[Column("priority_level")])
                <= PriorityRank(r2[Column("priority_level")])
      [] sort_by = "status" ->
            StatusRank(r1[Column("status")]) <= StatusRank(r2[Column("status")])
      [] OTHER -> TRUE

\* The rows in the order the SELECT of get_all returns them, given the order
\* `rows' in which the store reads them: an insertion sort on the ORDER BY key.
RECURSIVE OrderBy(_, _)
OrderBy(sort_by, rows) ==
    IF rows = <<>> THEN <<>>
    ELSE LET sorted == OrderBy(sort_by, SubSeq(rows, 1, Len(rows) - 1))
             r      == rows[Len(rows)]
             n      == Cardinality({i \in 1..Len(sorted) :
                                        OrderLE(sort_by, sorted[i], r)})
         IN  SubSeq(sorted, 1, n) \o <<r>> \o SubSeq(sorted, n + 1, Len(sorted))

\* The orders in which the store may read the rows of a table.
RowOrders(tbl) ==
    {s \in [1..Cardinality(tbl) -> tbl] :
        \A i, j \in 1..Cardinality(tbl) : i # j => s[i] # s[j]}

----------------------------------------------------------------------------
(* Calls and their outcome *)

\* Mutant: db.commit() is called after the try block.
InTryWithoutCommit(op) == {"validate", "execute", "fetch"}

\* The failure points that lie inside the try block of each Task operation:
\* every statement of get, get_all, save, update_details, update_status and
\* delete is inside its try (task.py:132, 168, 228, 256, 294, 315).
InTry(op) == {"validate", "execute", "fetch", "commit"}

\* What the except clause of an operation returns (task.py:151, 217, 240,
\* 282, 304, 323).
ExceptValue(op) ==
    CASE op = "get"     -> None
      [] op = "get_all" -> <<>>
      [] OTHER          -> FALSE

\* The point at which a store failure `f' strikes: a failed commit either
\* leaves the transaction open or has it rolled back by the store.
FailurePoint(f) ==
    IF f \in {"commit_open", "commit_rolled_back"} THEN "commit" ELSE f

\* A call of handler `op' with argument `arg' ends, the Task operation
\* `inner' having run last in it: normally with `value', or with `failed'
\* when `inner' met failure point `point' inside its try block; a failure
\* outside the try block reaches main()'s loop (main.py:30-67), which has no
\* handler.
Report(op, inner, arg, value, failed, point) ==
    /\ point \notin {"none", "validate"} => failures < MaxFailures
    /\ failures' = IF point \in {"none", "validate"} THEN failures
                                                     ELSE failures + 1
    /\ ret' = [op |-> op, arg |-> arg,
               result |-> IF point = "none" THEN value ELSE failed,
               fault |-> point]
    /\ alive' = (point = "none" \/ point \in InTry(inner))
    /\ clock' = clock

\* The call `op(arg)' of a Task operation ends.
Return(op, arg, value, point) ==
    Report(op, op, arg, value, ExceptValue(op), point)

\* The outcome of the statements of a writing operation: the Task object and
\* the table after the statements that ran, and the failure met ("none", or
\* "validate", "execute", or db.commit() failing with the transaction left
\* open or rolled back by the store).  No operation calls db.rollback().
Outcome(mem, tbl, f) == [mem |-> mem, tbl |-> tbl, f |-> f]

\* The connection's view of the table after an operation with outcome o.
TableAfter(o) == IF o.f = "commit_rolled_back" THEN committed ELSE o.tbl

\* The durable table after an operation with outcome o (db.commit()).
CommittedAfter(o) == IF o.f = "none" THEN o.tbl ELSE committed

\* A writing Task operation ends with outcome `outcome'.
Conclude(op, arg, outcome) ==
    \E o \in {outcome} :
        /\ cur' = o.mem
        /\ table' = TableAfter(o)
        /\ committed' = CommittedAfter(o)
        /\ Return(op, arg, TRUE, FailurePoint(o.f))

----------------------------------------------------------------------------
(* Task operations (models/task.py) *)

\* t = Task(...): no validation, the fields are assigned as given.
Construct(t) ==
    /\ alive
    /\ cur' = t
    /\ UNCHANGED <<table, committed>>
    /\ Return("Task", None, TRUE, "none")

\* What Task.get(task_id) may return on table tbl (task.py:132-151): the
\* Task of the row fetchone() yields, which is the first in the store's
\* unspecified row order, or None.
GetResults(tbl, task_id, f) ==
    IF SelectLike(tbl, task_id) = {} \/ f # "none"
    THEN {None}
    ELSE {TaskOfRow(r) : r \in SelectLike(tbl, task_id)}

\* task = Task.get(task_id).
Get(task_id, f) ==
    /\ alive
    /\ f \in {"none", "execute", "fetch"}
    /\ \E result \in GetResults(table, task_id, f) :
          /\ cur' = result
          /\ Return("get", task_id, result, f)
    /\ UNCHANGED <<table, committed>>

\* What Task.get_all(sort_by) may return on table tbl (task.py:168-217).
GetAllResults(tbl, sort_by, f) ==
    IF f # "none" THEN {<<>>}
    ELSE {[i \in 1..Cardinality(tbl) |-> TaskOfRow(OrderBy(sort_by, rows)[i])] :
            rows \in RowOrders(tbl)}

\* Task.get_all(sort_by).
GetAll(sort_by, f) ==
    /\ alive
    /\ f \in {"none", "execute", "fetch"}
    /\ \E tasks \in GetAllResults(table, sort_by, f) :
          Return("get_all", sort_by, tasks, f)
    /\ UNCHANGED <<table, committed, cur>>

\* The statements of task.save() (task.py:228-236).  The INSERT fails on a
\* store error and on an id the table already holds.
SaveOutcome(mem, tbl, f) ==
    IF f = "execute" \/ HasId(tbl, mem.id)
    THEN Outcome(mem, tbl, "execute")
    ELSE Outcome(mem, SqlInsert(tbl, InsertValues(mem)), f)

\* task.save() (task.py:219-240).
Save(f) ==
    /\ alive
    /\ cur # None
    /\ f \in {"none", "execute", "commit_open", "commit_rolled_back"}
    /\ Conclude("save", None, SaveOutcome(cur, table, f))

\* One field of update_details (task.py:258-275): the setter, then the
\* UPDATE, unless the field is not supplied or an earlier one failed.
UpdateField(o, args, field, column, failAt) ==
    IF o.f # "none" \/ field \notin DOMAIN args THEN o
    ELSE IF ~SetterAccepts(field, args[field]) THEN Outcome(o.mem, o.tbl, "validate")
    ELSE LET mem == [o.mem EXCEPT ![field] = args[field]]
         IN  IF failAt = field
             THEN Outcome(mem, o.tbl, "execute")
             ELSE Outcome(mem, SqlUpdate(o.tbl, column, args[field], mem.id), "none")

\* Mutant: a failing field undoes the UPDATEs made before it.
DetailsOutcomeRolledBack(mem, tbl, args, failAt, f) ==
    LET o1 == UpdateField(Outcome(mem, tbl, "none"), args, "title", "title", failAt)
        o2 == UpdateField(o1, args, "description", "description", failAt)
        o3 == UpdateField(o2, args, "due_date", "due_date", failAt)
        o4 == UpdateField(o3, args, "priority", "priority_level", failAt)
    IN  IF o4.f = "none" THEN Outcome(o4.mem, o4.tbl, f)
                         ELSE Outcome(o4.mem, tbl, o4.f)

\* The statements of task.update_details(**args) (task.py:256-278); the
\* UPDATE of field failAt fails, or f strikes at the commit.
DetailsOutcome(mem, tbl, args, failAt, f) ==
    LET o1 == UpdateField(Outcome(mem, tbl, "none"), args, "title", "title", failAt)
        o2 == UpdateField(o1, args, "description", "description", failAt)
        o3 == UpdateField(o2, args, "due_date", "due_date", failAt)
        o4 == UpdateField(o3, args, "priority", "priority_level", failAt)
    IN  IF o4.f = "none" THEN Outcome(o4.mem, o4.tbl, f) ELSE o4

\* task.update_details(**args) (task.py:242-282).
UpdateDetails(args, failAt, f) ==
    /\ alive
    /\ cur # None
    /\ f \in {"none", "commit_open", "commit_rolled_back"}
    /\ Conclude("update_details", args, DetailsOutcome(cur, table, args, failAt, f))

\* The statements of task.update_status(status) (task.py:294-300).
StatusOutcome(mem, tbl, status, f) ==
    IF ~SetterAccepts("status", status)
    THEN Outcome(mem, tbl, "validate")
    ELSE IF f = "execute"
         THEN Outcome([mem EXCEPT !.status = status], tbl, "execute")
         ELSE Outcome([mem EXCEPT !.status = status],
                      SqlUpdate(tbl, "status", status, mem.id), f)

\* task.update_status(status) (task.py:284-304).
UpdateStatus(status, f) ==
    /\ alive
    /\ cur # None
    /\ f \in {"none", "execute", "commit_open", "commit_rolled_back"}
    /\ Conclude("update_status", status, StatusOutcome(cur, table, status, f))

\* The statements of task.delete() (task.py:315-319).
DeleteOutcome(mem, tbl, f) ==
    IF f = "execute"
    THEN Outcome(mem, tbl, "execute")
    ELSE Outcome(mem, SqlDelete(tbl, mem.id), f)

\* task.delete() (task.py:306-323).
Delete(f) ==
    /\ alive
    /\ cur # None
    /\ f \in {"none", "execute", "commit_open", "commit_rolled_back"}
    /\ Conclude("delete", None, DeleteOutcome(cur, table, f))

----------------------------------------------------------------------------
(* Input helpers of utils.py *)

\* The month numbers enter_month accepts (utils.py:295).
numbered_dates ==
    {<<"1">>, <<"2">>, <<"3">>, <<"4">>, <<"5">>, <<"6">>, <<"7">>, <<"8">>,
     <<"9">>, <<"1", "0">>, <<"1", "1">>, <<"1", "2">>}

\* days_in_month[month] (utils.py:332-335).
days_in_month(month) ==
    CASE month \in {<<"4">>, <<"6">>, <<"9">>, <<"1", "1">>} -> 30
      [] month = <<"2">> -> 28
      [] OTHER -> 31

\* int(user) raises no ValueError: the inputs of the model are digit strings
\* or contain a character that int() rejects.
IsInt(user) ==
    /\ user # <<>>
    /\ \A i \in 1..Len(user) :
          user[i] \in {"0", "1", "2", "3", "4", "5", "6", "7", "8", "9"}

\* int(user) of a digit string (leading zeros are accepted and dropped).
RECURSIVE ParseInt(_)
ParseInt(user) ==
    IF user = <<>> THEN 0
    ELSE 10 * ParseInt(SubSeq(user, 1, Len(user) - 1))
            + (CharCode(user[Len(user)]) - CharCode("0"))

\* The year enter_year accepts from (utils.py:359).
MinYear == 2026

\* enter_month() returns user, as typed (utils.py:311-316).
enter_month(user) == user \in numbered_dates

\* enter_day(month) returns user, as typed (utils.py:336-344).
enter_day(month, user) ==
    IsInt(user) /\ ParseInt(user) >= 1 /\ ParseInt(user) <= days_in_month(month)

\* enter_year() returns year, as typed (utils.py:356-361).
enter_year(year) == IsInt(year) /\ ParseInt(year) >= MinYear

\* priorities_dict (utils.py:375-376).
priorities_dict == [user \in {"1", "2", "3"} |->
    CASE user = "1" -> "Low" [] user = "2" -> "Medium" [] user = "3" -> "High"]

\* status_dict (utils.py:401-402).
status_dict == [user \in {"1", "2", "3"} |->
    CASE user = "1" -> "Pending" [] user = "2" -> "In Progress"
      [] user = "3" -> "Completed"]

\* due_date = f"{year}-{month}-{day}" (utils.py:56, 186).
DueDate(year, month, day) == year \o <<"-">> \o month \o <<"-">> \o day

\* Mutant: the time is taken when add_task runs.
time_at_call == clock

\* ts = time.time() (utils.py:15), run once when utils is loaded, which is
\* when the clock of the model starts.
ts == 0

\* datetime.datetime.fromtimestamp(t).strftime('%Y-%m-%d %H:%M:%S').
strftime(t) ==
    CASE t = 0 -> "2026-11-03 09:00:00"
      [] t = 1 -> "2026-11-03 09:00:01"
      [] t = 2 -> "2026-11-03 09:00:02"
      [] OTHER -> "2026-11-03 09:00:03"

\* timestamp = datetime.datetime.fromtimestamp(ts).strftime(...)
\* (utils.py:57).
timestamp == strftime(ts)

\* sort_map.get(sort_choice) (utils.py:99-107); "None" stands for None.
sort_map(sort_choice) ==
    CASE sort_choice = "1" -> "due_date"
      [] sort_choice = "2" -> "priority"
      [] sort_choice = "3" -> "status"
      [] OTHER -> "None"

----------------------------------------------------------------------------
(* TaskManager handlers (utils.py) *)

\* A handler that wrote with outcome o ends; main() drops what it returns
\* (main.py:49-63), so no Task object stays in hand.
Finish(op, inner, arg, outcome, value, failed) ==
    \E o \in {outcome} :
        /\ cur' = None
        /\ table' = TableAfter(o)
        /\ committed' = CommittedAfter(o)
        /\ Report(op, inner, arg, value, failed, FailurePoint(o.f))

\* A handler ends without having written.
FinishRead(op, inner, arg, value, f) ==
    /\ cur' = None
    /\ UNCHANGED <<table, committed>>
    /\ Report(op, inner, arg, value, value, f)

\* tm.add_task() (utils.py:44-77): id is the uuid4 drawn, which no stored
\* row and no object in hand carries.
AddTask(id, title, description, month, day, year, p, s, f) ==
    /\ alive
    /\ enter_month(month) /\ enter_day(month, day) /\ enter_year(year)
    /\ p \in DOMAIN priorities_dict /\ s \in DOMAIN status_dict
    /\ ~HasId(table, id) /\ ~HasId(committed, id) /\ (cur # None => cur.id # id)
    /\ f \in {"none", "execute", "commit_open", "commit_rolled_back"}
    /\ LET task == Task(id, title, description, DueDate(year, month, day),
                        priorities_dict[p], status_dict[s], timestamp)
       IN  Finish("add_task", "save", None, SaveOutcome(task, table, f), task, None)

\* tm.list_tasks() (utils.py:78-135).
ListTasks(sort_choice, f) ==
    /\ alive
    /\ f \in {"none", "execute", "fetch"}
    /\ \E tasks \in GetAllResults(table, sort_map(sort_choice), f) :
          FinishRead("list_tasks", "get_all", sort_choice, tasks, f)

\* The update that tm.update_task() makes for menu choice 1-5 with the
\* value v entered (utils.py:174-196); f = "execute" fails its UPDATE.
ChoiceOutcome(task, tbl, choice, v, f) ==
    LET failAt(field) == IF f = "execute" THEN field ELSE "none"
        fc == IF f = "execute" THEN "none" ELSE f
    IN  CASE choice = "1" ->
                DetailsOutcome(task, tbl, [title |-> v], failAt("title"), fc)
          [] choice = "2" ->
                DetailsOutcome(task, tbl, [description |-> v],
                               failAt("description"), fc)
          [] choice = "3" ->
                DetailsOutcome(task, tbl, [due_date |-> DueDate(v[3], v[1], v[2])],
                               failAt("due_date"), fc)
          [] choice = "4" ->
                DetailsOutcome(task, tbl, [priority |-> priorities_dict[v]],
                               failAt("priority"), fc)
          [] choice = "5" ->
                StatusOutcome(task, tbl, status_dict[v], f)

\* The value v is one that the prompts of menu choice `choice' return.
ChoiceInput(choice, v) ==
    CASE choice = "3" ->
            enter_month(v[1]) /\ enter_day(v[1], v[2]) /\ enter_year(v[3])
      [] choice = "4" -> v \in DOMAIN priorities_dict
      [] choice = "5" -> v \in DOMAIN status_dict
      [] OTHER -> TRUE

\* tm.update_task() (utils.py:137-208), after the listing it opens with
\* (ListTasks, which only reads); fg strikes in the first Task.get, f
\* in the update, fg2 in the Task.get that follows it.  The model lets at
\* most one of the three fail in one call.
UpdateTask(task_id, choice, v, fg, f, fg2) ==
    /\ alive
    /\ fg \in {"none", "execute", "fetch"} /\ fg2 \in {"none", "execute", "fetch"}
    /\ f \in {"none", "execute", "commit_open", "commit_rolled_back"}
    /\ \E task \in GetResults(table, task_id, fg) :
          IF task = None
          THEN FinishRead("update_task", "get", task_id, None, fg)
          ELSE IF choice \notin {"1", "2", "3", "4", "5"}
          THEN FinishRead("update_task", "get", task_id, None, "none")
          ELSE /\ ChoiceInput(choice, v)
               /\ \E o \in {ChoiceOutcome(task, table, choice, v, f)} :
                      /\ o.f # "none" => fg2 = "none"
                      /\ \E updated \in GetResults(TableAfter(o), task.id, fg2) :
                            IF o.f # "none"
                            THEN Finish("update_task",
                                        IF choice = "5" THEN "update_status"
                                                        ELSE "update_details",
                                        task_id, o, updated, updated)
                            ELSE /\ cur' = None
                                 /\ table' = o.tbl
                                 /\ committed' = o.tbl
                                 /\ Report("update_task", "get", task_id,
                                           updated, None, fg2)

\* tm.mark_completed() (utils.py:210-236), after its listing; fg strikes in Task.get, f in
\* update_status.
MarkCompleted(task_id, fg, f) ==
    /\ alive
    /\ fg \in {"none", "execute", "fetch"}
    /\ f \in {"none", "execute", "commit_open", "commit_rolled_back"}
    /\ \E task \in GetResults(table, task_id, fg) :
          IF task = None
          THEN FinishRead("mark_completed", "get", task_id, None, fg)
          ELSE \E o \in {StatusOutcome(task, table, "Completed", f)} :
                   Finish("mark_completed", "update_status", task_id, o, o.mem,
                          None)

\* tm.delete_task() (utils.py:238-277), after its listing; confirm is the answer given last.
DeleteTask(task_id, confirm, fg, f) ==
    /\ alive
    /\ fg \in {"none", "execute", "fetch"}
    /\ f \in {"none", "execute", "commit_open", "commit_rolled_back"}
    /\ confirm \in {"yes", "no"}
    /\ \E task \in GetResults(table, task_id, fg) :
          IF task = None
          THEN FinishRead("delete_task", "get", task_id, FALSE, fg)
          ELSE IF confirm = "no"
          THEN FinishRead("delete_task", "get", task_id, FALSE, "none")
          ELSE Finish("delete_task", "delete", task_id,
                      DeleteOutcome(task, table, f), TRUE, FALSE)

----------------------------------------------------------------------------
(* Spec: the operations of the Task class under any caller, on a small     *)
(* universe of ids and field values.                                       *)

\* Store failures of a write: in execute, or in commit.
StoreFailures == {"execute", "commit_open", "commit_rolled_back"}

\* Ids (uuid4 strings: all of one length, made of hex digits).
Ids == {<<"a", "b">>, <<"a", "c">>}

\* What may be passed to Task.get: prefixes of ids, and text with LIKE's
\* wildcard characters.
TaskIdInputs == {<<"a">>, <<"b">>, <<"_">>, <<"%", "c">>, <<"a", "b">>, <<"a", "c">>}

\* A due date as the date prompts build it.
Due1 == DueDate(<<"2", "0", "2", "6">>, <<"2">>, <<"5">>)

\* The created_at passed to Task(...) with each id.
CreatedAt(id) ==
    IF id = <<"a", "b">> THEN "2026-11-03 09:00:00" ELSE "2026-11-03 09:00:01"

\* The Task objects constructed: one within the enumerations, one outside.
NewTasks ==
    {Task(id, "T1", "D1", Due1, "High", "Pending", CreatedAt(id)) : id \in Ids}
        \cup
    {Task(id, "T1", "D1", Due1, "Urgent", "Archived", CreatedAt(id)) :
        id \in Ids}

Init ==
    /\ table = {}
    /\ committed = {}
    /\ cur = None
    /\ ret = [op |-> "main", arg |-> None, result |-> None, fault |-> "none"]
    /\ alive = TRUE
    /\ failures = 0
    /\ clock = 0

DoConstruct == \E t \in NewTasks : Construct(t)

DoGet == \E task_id \in TaskIdInputs, f \in {"none", "execute", "fetch"} :
            Get(task_id, f)

DoGetAll ==
    \E sort_by \in {"due_date", "priority", "status", "None"},
       f \in {"none", "execute", "fetch"} : GetAll(sort_by, f)

DoSave == \E f \in {"none"} \cup StoreFailures : Save(f)

DoUpdateDetails ==
    \E args \in {[priority |-> "High"], [title |-> ""]},
       failAt \in {"none", "priority"},
       f \in {"none", "commit_open", "commit_rolled_back"} :
        UpdateDetails(args, failAt, f)

DoUpdateStatus ==
    \E status \in {"Completed", "Archived"},
       f \in {"none"} \cup StoreFailures : UpdateStatus(status, f)

DoDelete == \E f \in {"none"} \cup StoreFailures : Delete(f)

Next ==
    \/ DoConstruct
    \/ DoGet
    \/ DoGetAll
    \/ DoSave
    \/ DoUpdateDetails
    \/ DoUpdateStatus
    \/ DoDelete

Spec == Init /\ [][Next]_vars

----------------------------------------------------------------------------
(* SpecDetails: the Task operations with update_details on every subset of *)
(* its four fields.                                                        *)

Due2 == DueDate(<<"2", "0", "2", "6">>, <<"1", "0">>, <<"5">>)

DetailsNewTasks ==
    {Task(id, "T1", "D1", Due1, "High", "Pending", timestamp) : id \in Ids}

\* The keyword arguments passed to update_details: each field supplied or
\* not, with a value its setter accepts or one it rejects.  A field left
\* out of the record is one passed as None.
DetailsArgs ==
    {[title |-> "T2"], [description |-> "D2"],
     [due_date |-> Due2, priority |-> "Low"],
     [title |-> "T1", description |-> "D1", due_date |-> Due1,
      priority |-> "High"],
     [title |-> "T2", priority |-> "Urgent"],
     [title |-> ""]}

DetailsConstruct == \E t \in DetailsNewTasks : Construct(t)

DetailsSave == \E f \in {"none", "commit_open"} : Save(f)

DetailsGet == \E task_id \in Ids : Get(task_id, "none")

DetailsUpdate ==
    \E args \in DetailsArgs,
       failAt \in {"none", "description", "priority"},
       f \in {"none", "commit_open", "commit_rolled_back"} :
        UpdateDetails(args, failAt, f)

NextDetails ==
    \/ DetailsConstruct
    \/ DetailsSave
    \/ DetailsGet
    \/ DetailsUpdate

SpecDetails == Init /\ [][NextDetails]_vars

----------------------------------------------------------------------------
(* SpecList: get_all on tables of up to three tasks of every priority and  *)
(* status, inside and outside the enumerations.                            *)

ListIds == {<<"a", "b">>, <<"a", "c">>, <<"b", "c">>}

ListNewTasks ==
    {Task(id, "T1", "D1", Due1, ps[1], ps[2], timestamp) :
        id \in ListIds,
        ps \in {<<"High", "Completed">>, <<"Medium", "Pending">>,
                <<"Low", "In Progress">>, <<"Urgent", "Archived">>}}

ListConstruct == \E t \in ListNewTasks : Construct(t)

ListSave == Save("none")

ListDelete == Delete("none")

ListGetAll ==
    \E sort_by \in {"due_date", "priority", "status", "None"},
       f \in {"none", "fetch"} : GetAll(sort_by, f)

NextList ==
    \/ ListConstruct
    \/ ListSave
    \/ ListDelete
    \/ ListGetAll

SpecList == Init /\ [][NextList]_vars

----------------------------------------------------------------------------
(* SpecApp: main()'s loop (main.py:30-67), which calls the TaskManager     *)
(* handlers only.                                                          *)

\* What is typed at the handlers' "Enter the task ID" prompt.
HandlerTaskIds == {<<"a">>, <<"a", "b">>}

\* The store failures of one handler call: in its first Task.get, in its
\* write, in the Task.get after the write; at most one strikes.
HandlerFailures ==
    {<<"none", "none", "none">>, <<"fetch", "none", "none">>,
     <<"none", "execute", "none">>, <<"none", "commit_open", "none">>,
     <<"none", "commit_rolled_back", "none">>, <<"none", "none", "execute">>}

\* What is typed at the month, day and year prompts.
MonthInputs == {<<"2">>, <<"1", "0">>, <<"0", "2">>}

DayInputs == {<<"5">>, <<"3", "0">>, <<"x">>}

YearInputs == {<<"2", "0", "2", "6">>, <<"2", "0", "2", "5">>}

\* The month, day and year that the date prompts return.
DatesEntered ==
    {mdy \in MonthInputs \X DayInputs \X YearInputs :
        enter_month(mdy[1]) /\ enter_day(mdy[1], mdy[2]) /\ enter_year(mdy[3])}

AppAddTask ==
    \E mdy \in DatesEntered, id \in Ids, f \in {"none"} \cup StoreFailures :
        AddTask(id, "T1", "D1", mdy[1], mdy[2], mdy[3], "3", "1", f)

AppListTasks ==
    \E sort_choice \in {"1", "2", "3", "4"}, f \in {"none", "execute", "fetch"} :
        ListTasks(sort_choice, f)

AppUpdateTask ==
    \E task_id \in HandlerTaskIds,
       cv \in {<<"1", "T1">>, <<"2", "D1">>, <<"4", "3">>, <<"5", "3">>,
               <<"6", "">>}
             \cup {<<"3", mdy>> : mdy \in DatesEntered},
       fs \in HandlerFailures :
        UpdateTask(task_id, cv[1], cv[2], fs[1], fs[2], fs[3])

AppMarkCompleted ==
    \E task_id \in HandlerTaskIds, fs \in HandlerFailures :
        fs[3] = "none" /\ MarkCompleted(task_id, fs[1], fs[2])

AppDeleteTask ==
    \E task_id \in HandlerTaskIds, confirm \in {"yes", "no"},
       fs \in HandlerFailures :
        fs[3] = "none" /\ DeleteTask(task_id, confirm, fs[1], fs[2])

\* A second passes while main() waits at its menu prompt (main.py:46).
AppWait ==
    /\ alive
    /\ clock < MaxClock
    /\ clock' = clock + 1
    /\ ret' = [op |-> "input", arg |-> None, result |-> None, fault |-> "none"]
    /\ UNCHANGED <<table, committed, cur, alive, failures>>

NextApp ==
    \/ AppWait
    \/ AppAddTask
    \/ AppListTasks
    \/ AppUpdateTask
    \/ AppMarkCompleted
    \/ AppDeleteTask

SpecApp == Init /\ [][NextApp]_vars

----------------------------------------------------------------------------
(* Claims checked under Spec *)

\* s starts with prefix p.
StartsWith(s, p) == Len(p) <= Len(s) /\ SubSeq(s, 1, Len(p)) = p

\* No row with this id is visible on the connection or durable.
Gone(id) == ~HasId(table, id) /\ ~HasId(committed, id)

\* C1 (as claimed): no sequence of Task(...) and save() stores a row whose
\* priority or status is outside its enumeration.
C1_StoredWithinEnumerations ==
    \A r \in table \cup committed :
        /\ r[Column("priority_level")] \in {"Low", "Medium", "High"}
        /\ r[Column("status")] \in {"Pending", "In Progress", "Completed"}

\* C2: when save() has returned True, Task.get with the full id of the saved
\* task returns a Task equal to it in all seven fields.
C2_RoundTrip ==
    (ret.op = "save" /\ ret.result = TRUE) =>
        \A found \in GetResults(table, cur.id, "none") :
            /\ found # None
            /\ found.id = cur.id
            /\ found.title = cur.title
            /\ found.description = cur.description
            /\ found.due_date = cur.due_date
            /\ found.priority = cur.priority
            /\ found.status = cur.status
            /\ found.created_at = cur.created_at

\* C2 witness: a save has succeeded beside another stored task.
C2_Witness ==
    ret.op = "save" /\ ret.result = TRUE /\ Cardinality(table) = 2

\* C3 (as claimed): when save() returns False on a store error, for a task
\* whose id no row carried, no row with that id is visible on the connection
\* or durable afterwards.
C3_NoRowAfterFailedSave ==
    [][(/\ ret'.op = "save"
        /\ ret'.result = FALSE
        /\ ret'.fault \in {"execute", "commit"}
        /\ Gone(cur.id))
       => (~HasId(table', cur.id) /\ ~HasId(committed', cur.id))]_vars

\* C4 (as claimed): Task.get(p) returns a task only if its id starts with p,
\* and None when no stored id starts with p.
C4_GetMatchesPrefix ==
    (ret.op = "get" /\ ret.fault = "none") =>
        IF ret.result = None
        THEN \A r \in table : ~StartsWith(r[Column("id")], ret.arg)
        ELSE StartsWith(ret.result.id, ret.arg)

\* C5: when delete() has returned True, Task.get with the task's id returns
\* None and no row with that id is stored; and an id that no row carries
\* stays absent, with Task.get returning None for it, through every later
\* operation other than save().
C5_DeletedStaysAbsent ==
    /\ [](ret.op = "delete" /\ ret.result = TRUE
            => Gone(cur.id) /\ GetResults(table, cur.id, "none") = {None})
    /\ [][\A id \in Ids :
            (Gone(id) /\ ret'.op # "save")
                => (/\ ~HasId(table', id)
                    /\ ~HasId(committed', id)
                    /\ GetResults(table', id, "none") = {None})]_vars

\* C5 witness: a delete has succeeded and left the other task's row.
C5_Witness ==
    /\ ret.op = "delete" /\ ret.result = TRUE
    /\ Cardinality(table) = 1 /\ Cardinality(committed) = 1

\* C7: a successful update_status(s) sets the status of the Task object and
\* of its row (as read on the connection) to s and changes nothing else: the
\* other six fields of the object and of the row, and every other row, are
\* as before.
C7_StatusOnly ==
    [][(ret'.op = "update_status" /\ ret'.result = TRUE) =>
        /\ cur'.status = ret'.arg
        /\ cur'.id = cur.id /\ cur'.title = cur.title
        /\ cur'.description = cur.description /\ cur'.due_date = cur.due_date
        /\ cur'.priority = cur.priority /\ cur'.created_at = cur.created_at
        /\ Cardinality(table') = Cardinality(table)
        /\ \A r \in table :
              IF r[1] = cur.id
              THEN <<r[1], r[2], r[3], r[4], r[5], ret'.arg, r[7]>> \in table'
              ELSE r \in table']_vars

\* C7 witness: update_status("Completed") has succeeded on a stored task
\* beside another stored task.
C7_Witness ==
    /\ ret.op = "update_status" /\ ret.result = TRUE /\ ret.arg = "Completed"
    /\ HasId(table, cur.id) /\ Cardinality(table) = 2

\* C10: when the store fails in execute, fetch or commit, no exception leaves
\* the operation: save, update_details, update_status and delete return
\* False, get returns None, get_all returns an empty list, and the caller
\* keeps running.
C10_StoreFailureReported ==
    ret.fault \in {"execute", "fetch", "commit"} =>
        /\ alive
        /\ CASE ret.op \in {"save", "update_details", "update_status", "delete"}
                   -> ret.result = FALSE
             [] ret.op = "get" -> ret.result = None
             [] ret.op = "get_all" -> ret.result = <<>>

\* C10 witness: a commit has failed inside update_details.
C10_Witness == ret.op = "update_details" /\ ret.fault = "commit"

\* C11: update_status(s) with s outside Pending, In Progress, Completed
\* returns False, issues no statement and does not commit: the Task object,
\* the rows read on the connection and the durable rows are as before.
C11_InvalidStatusRejected ==
    [][(/\ ret'.op = "update_status"
        /\ ret'.arg \notin {"Pending", "In Progress", "Completed"})
       => (/\ ret'.result = FALSE
           /\ cur' = cur
           /\ table' = table
           /\ committed' = committed)]_vars

\* C11 witness: update_status("Archived") has been rejected on a stored task
\* while an earlier write was still uncommitted.
C11_Witness ==
    /\ ret.op = "update_status" /\ ret.arg = "Archived" /\ ret.result = FALSE
    /\ HasId(table, cur.id) /\ table # committed

\* C12 (as claimed): when the store fails in execute or commit during
\* update_status or update_details, the call returns False, the Task object
\* has the field values it had before the call, and if it agreed with its
\* row before it agrees with it afterwards.
C12_FailedUpdateLeavesState ==
    [][(/\ ret'.op \in {"update_status", "update_details"}
        /\ ret'.fault \in {"execute", "commit"})
       => (/\ ret'.result = FALSE
           /\ cur' = cur
           /\ InsertValues(cur) \in table => InsertValues(cur') \in table')]_vars

\* C13: the id and created_at of the Task object in hand and of every row,
\* on the connection and durable, are those given at construction; and no
\* save, update_details, update_status or delete changes the id or the
\* created_at of the Task object, or of the row of any id.
C13_IdCreatedAtImmutable ==
    /\ [](/\ cur # None => cur.id \in Ids /\ cur.created_at = CreatedAt(cur.id)
          /\ \A r \in table \cup committed :
                r[1] \in Ids /\ r[7] = CreatedAt(r[1]))
    /\ [][ret'.op \in {"save", "update_details", "update_status", "delete"} =>
            /\ cur'.id = cur.id
            /\ cur'.created_at = cur.created_at
            /\ \A r \in table, q \in table' : q[1] = r[1] => q[7] = r[7]]_vars

\* C13 witness: update_status has succeeded on the task created second,
\* after its priority was updated, and both tasks are stored.
C13_Witness ==
    /\ ret.op = "update_status" /\ ret.result = TRUE
    /\ cur.id = <<"a", "c">> /\ cur.priority = "High"
    /\ <<cur.id, "T1", "D1", Due1, "High", "Completed", "2026-11-03 09:00:01">>
          \in committed
    /\ Cardinality(committed) = 2

\* C16: update_status, update_details and delete on a Task object whose id
\* no row on the connection carries return True when the store does not
\* fail, and leave the rows on the connection as they were; update_status
\* and update_details still set the fields of the object.
C16_SuccessWithoutRow ==
    [][(/\ ret'.op \in {"update_status", "update_details", "delete"}
        /\ ret'.fault = "none"
        /\ ~HasId(table, cur.id))
       => (/\ ret'.result = TRUE
           /\ table' = table
           /\ cur'.id = cur.id
           /\ ret'.op = "update_status" => cur'.status = ret'.arg
           /\ ret'.op = "update_details" =>
                 \A field \in DOMAIN ret'.arg : cur'[field] = ret'.arg[field])]_vars

\* C16 witness: update_status("Completed") has returned True on a Task
\* object whose row had been deleted, beside another stored task.
C16_Witness ==
    /\ ret.op = "update_status" /\ ret.result = TRUE
    /\ cur.status = "Completed"
    /\ ~HasId(table, cur.id) /\ Cardinality(table) = 1

----------------------------------------------------------------------------
(* Claims checked under SpecDetails *)

\* The row r with the columns of the supplied fields set to their values.
RowWith(r, args) ==
    <<r[1],
      IF "title" \in DOMAIN args THEN args.title ELSE r[2],
      IF "description" \in DOMAIN args THEN args.description ELSE r[3],
      IF "due_date" \in DOMAIN args THEN args.due_date ELSE r[4],
      IF "priority" \in DOMAIN args THEN args.priority ELSE r[5],
      r[6], r[7]>>

\* C6: a successful update_details sets each supplied field among title,
\* description, due_date and priority to the value supplied, in the Task
\* object and in its row (as read on the connection), and changes nothing
\* else: the unsupplied fields, id, status and created_at of the object and
\* of the row, and every other row, are as before.
C6_SuppliedFieldsOnly ==
    [][(ret'.op = "update_details" /\ ret'.result = TRUE) =>
        /\ \A field \in {"title", "description", "due_date", "priority"} :
              cur'[field] = IF field \in DOMAIN ret'.arg THEN ret'.arg[field]
                                                          ELSE cur[field]
        /\ cur'.id = cur.id /\ cur'.status = cur.status
        /\ cur'.created_at = cur.created_at
        /\ Cardinality(table') = Cardinality(table)
        /\ \A r \in table :
              IF r[1] = cur.id THEN RowWith(r, ret'.arg) \in table'
                               ELSE r \in table']_vars

\* C6 witness: update_details(due_date=..., priority="Low") has succeeded on
\* a stored task whose title had been changed before, beside another stored
\* task.
C6_Witness ==
    /\ ret.op = "update_details" /\ ret.result = TRUE
    /\ DOMAIN ret.arg = {"due_date", "priority"}
    /\ cur.title = "T2" /\ cur.priority = "Low"
    /\ InsertValues(cur) \in table /\ Cardinality(table) = 2

\* The order in which update_details is claimed to write the fields.
FieldOrder == <<"title", "description", "due_date", "priority">>

\* The supplied fields that come before the k-th field, with their values.
SuppliedBefore(args, k) ==
    [field \in DOMAIN args \cap {FieldOrder[i] : i \in 1..(k - 1)} |->
        args[field]]

\* A value that the field may not take.
RejectedValue(field, value) ==
    IF field = "priority" THEN value \notin {"Low", "Medium", "High"}
    ELSE IF field = "due_date" THEN value \in {<<>>, <<" ">>}
    ELSE value \in {"", " "}

\* C14: when update_details fails at a supplied field, by a rejected value
\* or a store error in its UPDATE, it returns False and nothing is committed
\* or rolled back: the task's row as read on the connection carries the
\* values of the supplied fields that come before the failing one in the
\* order title, description, due_date, priority (for a rejected value, the
\* failing field is the first supplied one with such a value), Task.get
\* returns the row so changed, and the durable rows are as before; and every
\* save or update_details that succeeds afterwards makes the rows on the
\* connection, those writes included, the durable rows.
C14_EarlierWritesStay ==
    /\ [][(ret'.op = "update_details" /\ ret'.fault \in {"validate", "execute"})
          => /\ ret'.result = FALSE
             /\ committed' = committed
             /\ \E k \in 1..4 :
                   /\ FieldOrder[k] \in DOMAIN ret'.arg
                   /\ ret'.fault = "validate" =>
                         /\ RejectedValue(FieldOrder[k], ret'.arg[FieldOrder[k]])
                         /\ \A field \in DOMAIN SuppliedBefore(ret'.arg, k) :
                               ~RejectedValue(field, ret'.arg[field])
                   /\ table' = {IF r[1] = cur.id
                                THEN RowWith(r, SuppliedBefore(ret'.arg, k))
                                ELSE r : r \in table}
                   /\ HasId(table, cur.id) =>
                         GetResults(table', cur.id, "none") =
                             {TaskOfRow(RowWith(r, SuppliedBefore(ret'.arg, k))) :
                                 r \in {q \in table : q[1] = cur.id}}]_vars
    /\ [][(ret'.op \in {"save", "update_details"} /\ ret'.fault = "none")
          => committed' = table']_vars

\* C14 witness: update_details(title="T2", priority="Urgent") has failed at
\* the priority: the row on the connection has the new title, the durable
\* row the old one.
C14_Witness ==
    /\ ret.op = "update_details" /\ ret.fault = "validate"
    /\ DOMAIN ret.arg = {"title", "priority"}
    /\ \E r \in table : r[1] = cur.id /\ r[2] = "T2"
    /\ \E r \in committed : r[1] = cur.id /\ r[2] = "T1"

----------------------------------------------------------------------------
(* Claims checked under SpecList *)

\* C8: get_all("priority") returns every stored task once, none of rank
\* High=1, Medium=2, Low=3, other=4 after one of a higher rank, so all High
\* come before all Medium, all Medium before all Low and every other
\* priority last; get_all("status") does the same with the ranks Pending=1,
\* In Progress=2, Completed=3, other=4; whatever the order in which the
\* store holds the rows.
C8_RankOrder ==
    LET prank(p) == CASE p = "High" -> 1 [] p = "Medium" -> 2
                      [] p = "Low" -> 3 [] OTHER -> 4
        srank(x) == CASE x = "Pending" -> 1 [] x = "In Progress" -> 2
                      [] x = "Completed" -> 3 [] OTHER -> 4
    IN  (/\ ret.op = "get_all" /\ ret.fault = "none"
         /\ ret.arg \in {"priority", "status"}) =>
            /\ Len(ret.result) = Cardinality(table)
            /\ {InsertValues(ret.result[i]) : i \in 1..Len(ret.result)} = table
            /\ \A i, j \in 1..Len(ret.result) :
                  i < j => IF ret.arg = "priority"
                           THEN prank(ret.result[i].priority)
                                    <= prank(ret.result[j].priority)
                           ELSE srank(ret.result[i].status)
                                    <= srank(ret.result[j].status)

\* C8 witness: get_all("priority") has returned three tasks: a Medium, a
\* Low and one outside the enumeration, in this order.
C8_Witness ==
    /\ ret.op = "get_all" /\ ret.arg = "priority" /\ Len(ret.result) = 3
    /\ ret.result[1].priority = "Medium" /\ ret.result[2].priority = "Low"
    /\ ret.result[3].priority = "Urgent"

----------------------------------------------------------------------------
(* Claims checked under SpecApp *)

Digits == {"0", "1", "2", "3", "4", "5", "6", "7", "8", "9"}

\* d is of the form YYYY-MM-DD: four, two and two digits.
ZeroPadded(d) ==
    /\ Len(d) = 10
    /\ d[5] = "-" /\ d[8] = "-"
    /\ \A i \in {1, 2, 3, 4, 6, 7, 9, 10} : d[i] \in Digits

\* C9 (as claimed): every due date that add_task or update_task has built
\* from the month, day and year prompts and stored is a zero-padded
\* YYYY-MM-DD string.
C9_DueDateZeroPadded ==
    \A r \in table \cup committed : ZeroPadded(r[Column("due_date")])

====
